---- MODULE Spec2Model ----
(***************************************************************************)
(* The text-cleaning cell of MLA-NLP-DAY2-SAGEMAKER-NB.ipynb: the globals  *)
(* stop, excluding, stop_words and snow, and the function process_text,    *)
(* modelled one statement per action.                                      *)
(*                                                                         *)
(* A Python str is a sequence of one-character strings; a Python value is  *)
(* a record [type, chars], so that a missing value (None, NaN) or a number *)
(* is told from a str the way isinstance tells it.                         *)
(***************************************************************************)
EXTENDS Integers, Sequences, FiniteSets, TLC

VARIABLES
    excluding,          \* global: the words kept although NLTK lists them
    stop_words,         \* global: the reduced stop-word list
    snow,               \* global: the SnowballStemmer object
    texts,              \* the argument of the running (or last) call
    pc,                 \* the statement process_text is at
    it,                 \* number of elements the `for sent in texts` loop has taken
    sent,               \* local: the element being cleaned
    filtered_sentence,  \* local: the stems kept for this element
    tokens,             \* the list word_tokenize(sent) returned
    tk,                 \* number of tokens the `for w in ...` loop has taken
    w,                  \* local: the token being filtered
    final_string,       \* local: the joined stems
    final_text_list,    \* local: the result being built
    result,             \* what the last call returned
    ncalls,             \* observer: number of calls made so far
    ref,                \* observer: one earlier call, its argument and its result
    frame,              \* concurrent callers: the locals of each caller's call
    cell,               \* the notebook run: the cell (or the call in it) it is at
    job,                \* SageMaker: status of the training job
    endpoint,           \* SageMaker: status of LinearLearnerClassifierEndpoint
    X_test,             \* number of rows of the test set; row n is its n-th row
    batches,            \* the list np.array_split returned
    prediction_batches  \* the predictions received, one entry per predict call

vars == << excluding, stop_words, snow, texts, pc, it, sent, filtered_sentence,
           tokens, tk, w, final_string, final_text_list, result, ncalls, ref,
           frame, cell, job, endpoint, X_test, batches, prediction_batches >>

run == << cell, job, endpoint, X_test, batches, prediction_batches >>

globals == << excluding, stop_words, snow >>

locals == << it, sent, filtered_sentence, tokens, tk, w, final_string,
             final_text_list >>

process == << texts, pc, locals, result, ncalls, ref >>

-----------------------------------------------------------------------------
(* Bounds of the model. *)

\* Longest input string of SpecElem, counted in pieces of Pieces.
MaxPieces == 3

\* Longest input sequence of Spec.
MaxTexts == 2

\* Most calls in one behaviour of Spec.
MaxCalls == 2

\* Number of concurrent callers of SpecPar.
NCallers == 2

\* Largest test set of SpecRun besides the notebook's own.
MaxRows == 60

-----------------------------------------------------------------------------
(* Python values. *)

Str(cs) == [type |-> "str", chars |-> cs]

None == [type |-> "NoneType", chars |-> <<>>]

NaN == [type |-> "float", chars |-> <<>>]

Int5 == [type |-> "int", chars |-> <<>>]

\* isinstance(v, str)
isinstance_str(v) == v.type = "str"

-----------------------------------------------------------------------------
(* Characters. *)

Whitespace == {" ", "\t", "\n", "\r", "\f"}

Digits == {"0", "1", "2", "3", "4", "5", "6", "7", "8", "9"}

Vowels == {"a", "e", "i", "o", "u", "y"}

UpperCase == << "A", "B", "C", "D", "E", "F", "G", "H", "I", "J", "K", "L", "M",
                "N", "O", "P", "Q", "R", "S", "T", "U", "V", "W", "X", "Y", "Z" >>

LowerCase == << "a", "b", "c", "d", "e", "f", "g", "h", "i", "j", "k", "l", "m",
                "n", "o", "p", "q", "r", "s", "t", "u", "v", "w", "x", "y", "z" >>

LowerChar(c) ==
    IF \E n \in 1..Len(UpperCase) : UpperCase[n] = c
    THEN LowerCase[CHOOSE n \in 1..Len(UpperCase) : UpperCase[n] = c]
    ELSE c

-----------------------------------------------------------------------------
(* The module-level lists. *)

\* stopwords.words('english'): NLTK's list, in NLTK's order.
stop ==
    << <<"i">>, <<"m","e">>, <<"m","y">>, <<"m","y","s","e","l","f">>, <<"w","e">>,
       <<"o","u","r">>, <<"o","u","r","s">>, <<"o","u","r","s","e","l","v","e","s">>,
       <<"y","o","u">>, <<"y","o","u","'","r","e">>, <<"y","o","u","'","v","e">>,
       <<"y","o","u","'","l","l">>, <<"y","o","u","'","d">>, <<"y","o","u","r">>,
       <<"y","o","u","r","s">>, <<"y","o","u","r","s","e","l","f">>,
       <<"y","o","u","r","s","e","l","v","e","s">>, <<"h","e">>, <<"h","i","m">>,
       <<"h","i","s">>, <<"h","i","m","s","e","l","f">>, <<"s","h","e">>,
       <<"s","h","e","'","s">>, <<"h","e","r">>, <<"h","e","r","s">>,
       <<"h","e","r","s","e","l","f">>, <<"i","t">>, <<"i","t","'","s">>, <<"i","t","s">>,
       <<"i","t","s","e","l","f">>, <<"t","h","e","y">>, <<"t","h","e","m">>,
       <<"t","h","e","i","r">>, <<"t","h","e","i","r","s">>,
       <<"t","h","e","m","s","e","l","v","e","s">>, <<"w","h","a","t">>,
       <<"w","h","i","c","h">>, <<"w","h","o">>, <<"w","h","o","m">>, <<"t","h","i","s">>,
       <<"t","h","a","t">>, <<"t","h","a","t","'","l","l">>, <<"t","h","e","s","e">>,
       <<"t","h","o","s","e">>, <<"a","m">>, <<"i","s">>, <<"a","r","e">>, <<"w","a","s">>,
       <<"w","e","r","e">>, <<"b","e">>, <<"b","e","e","n">>, <<"b","e","i","n","g">>,
       <<"h","a","v","e">>, <<"h","a","s">>, <<"h","a","d">>, <<"h","a","v","i","n","g">>,
       <<"d","o">>, <<"d","o","e","s">>, <<"d","i","d">>, <<"d","o","i","n","g">>, <<"a">>,
       <<"a","n">>, <<"t","h","e">>, <<"a","n","d">>, <<"b","u","t">>, <<"i","f">>,
       <<"o","r">>, <<"b","e","c","a","u","s","e">>, <<"a","s">>, <<"u","n","t","i","l">>,
       <<"w","h","i","l","e">>, <<"o","f">>, <<"a","t">>, <<"b","y">>, <<"f","o","r">>,
       <<"w","i","t","h">>, <<"a","b","o","u","t">>, <<"a","g","a","i","n","s","t">>,
       <<"b","e","t","w","e","e","n">>, <<"i","n","t","o">>,
       <<"t","h","r","o","u","g","h">>, <<"d","u","r","i","n","g">>,
       <<"b","e","f","o","r","e">>, <<"a","f","t","e","r">>, <<"a","b","o","v","e">>,
       <<"b","e","l","o","w">>, <<"t","o">>, <<"f","r","o","m">>, <<"u","p">>,
       <<"d","o","w","n">>, <<"i","n">>, <<"o","u","t">>, <<"o","n">>, <<"o","f","f">>,
       <<"o","v","e","r">>, <<"u","n","d","e","r">>, <<"a","g","a","i","n">>,
       <<"f","u","r","t","h","e","r">>, <<"t","h","e","n">>, <<"o","n","c","e">>,
       <<"h","e","r","e">>, <<"t","h","e","r","e">>, <<"w","h","e","n">>,
       <<"w","h","e","r","e">>, <<"w","h","y">>, <<"h","o","w">>, <<"a","l","l">>,
       <<"a","n","y">>, <<"b","o","t","h">>, <<"e","a","c","h">>, <<"f","e","w">>,
       <<"m","o","r","e">>, <<"m","o","s","t">>, <<"o","t","h","e","r">>,
       <<"s","o","m","e">>, <<"s","u","c","h">>, <<"n","o">>, <<"n","o","r">>,
       <<"n","o","t">>, <<"o","n","l","y">>, <<"o","w","n">>, <<"s","a","m","e">>,
       <<"s","o">>, <<"t","h","a","n">>, <<"t","o","o">>, <<"v","e","r","y">>, <<"s">>,
       <<"t">>, <<"c","a","n">>, <<"w","i","l","l">>, <<"j","u","s","t">>, <<"d","o","n">>,
       <<"d","o","n","'","t">>, <<"s","h","o","u","l","d">>,
       <<"s","h","o","u","l","d","'","v","e">>, <<"n","o","w">>, <<"d">>, <<"l","l">>,
       <<"m">>, <<"o">>, <<"r","e">>, <<"v","e">>, <<"y">>, <<"a","i","n">>,
       <<"a","r","e","n">>, <<"a","r","e","n","'","t">>, <<"c","o","u","l","d","n">>,
       <<"c","o","u","l","d","n","'","t">>, <<"d","i","d","n">>,
       <<"d","i","d","n","'","t">>, <<"d","o","e","s","n">>,
       <<"d","o","e","s","n","'","t">>, <<"h","a","d","n">>, <<"h","a","d","n","'","t">>,
       <<"h","a","s","n">>, <<"h","a","s","n","'","t">>, <<"h","a","v","e","n">>,
       <<"h","a","v","e","n","'","t">>, <<"i","s","n">>, <<"i","s","n","'","t">>,
       <<"m","a">>, <<"m","i","g","h","t","n">>, <<"m","i","g","h","t","n","'","t">>,
       <<"m","u","s","t","n">>, <<"m","u","s","t","n","'","t">>, <<"n","e","e","d","n">>,
       <<"n","e","e","d","n","'","t">>, <<"s","h","a","n">>, <<"s","h","a","n","'","t">>,
       <<"s","h","o","u","l","d","n">>, <<"s","h","o","u","l","d","n","'","t">>,
       <<"w","a","s","n">>, <<"w","a","s","n","'","t">>, <<"w","e","r","e","n">>,
       <<"w","e","r","e","n","'","t">>, <<"w","o","n">>, <<"w","o","n","'","t">>,
       <<"w","o","u","l","d","n">>, <<"w","o","u","l","d","n","'","t">> >>

\* excluding = [...]
excludingWords ==
    << <<"a","g","a","i","n","s","t">>, <<"n","o","t">>, <<"d","o","n">>,
       <<"d","o","n","'","t">>, <<"a","i","n">>, <<"a","r","e","n">>,
       <<"a","r","e","n","'","t">>, <<"c","o","u","l","d","n">>,
       <<"c","o","u","l","d","n","'","t">>, <<"d","i","d","n">>,
       <<"d","i","d","n","'","t">>, <<"d","o","e","s","n">>,
       <<"d","o","e","s","n","'","t">>, <<"h","a","d","n">>, <<"h","a","d","n","'","t">>,
       <<"h","a","s","n">>, <<"h","a","s","n","'","t">>, <<"h","a","v","e","n">>,
       <<"h","a","v","e","n","'","t">>, <<"i","s","n">>, <<"i","s","n","'","t">>,
       <<"m","i","g","h","t","n">>, <<"m","i","g","h","t","n","'","t">>,
       <<"m","u","s","t","n">>, <<"m","u","s","t","n","'","t">>, <<"n","e","e","d","n">>,
       <<"n","e","e","d","n","'","t">>, <<"s","h","o","u","l","d","n">>,
       <<"s","h","o","u","l","d","n","'","t">>, <<"w","a","s","n">>,
       <<"w","a","s","n","'","t">>, <<"w","e","r","e","n">>,
       <<"w","e","r","e","n","'","t">>, <<"w","o","n">>, <<"w","o","n","'","t">>,
       <<"w","o","u","l","d","n">>, <<"w","o","u","l","d","n","'","t">> >>

InList(x, list) == \E n \in 1..Len(list) : list[n] = x

\* Mutant: list(set(stop) - set(excluding)), which loses NLTK's order (here:
\* turns it round).
reduced_unordered(stopList, excl) ==
    LET kept == SelectSeq(stopList, LAMBDA word : ~(\E n \in 1..Len(excl) : excl[n] = word))
    IN  [n \in 1..Len(kept) |-> kept[Len(kept) + 1 - n]]

\* Mutant: no word is taken out of NLTK's list.
reduced_none(stopList, excl) == stopList

\* stop_words = [word for word in stop if word not in excluding]
reduced(stopList, excl) == SelectSeq(stopList, LAMBDA word : ~InList(word, excl))

\* snow = SnowballStemmer('english'): ignore_stopwords defaults to False, so the
\* stemmer's own stop-word set is empty.
SnowballStemmer == [language |-> "english", stopwords |-> {}]

-----------------------------------------------------------------------------
(* The string operations process_text calls. *)

Min(S) == CHOOSE x \in S : \A y \in S : x <= y

Max(S) == CHOOSE x \in S : \A y \in S : y <= x

DropLast(s, n) == SubSeq(s, 1, Len(s) - n)

EndsWith(s, suffix) ==
    /\ Len(suffix) <= Len(s)
    /\ SubSeq(s, Len(s) - Len(suffix) + 1, Len(s)) = suffix

\* Mutant: the text keeps its case.
lower_none(s) == s

\* str.lower()
lower(s) == [n \in 1..Len(s) |-> LowerChar(s[n])]

\* str.strip()
strip(s) ==
    LET solid == {n \in 1..Len(s) : s[n] \notin Whitespace}
    IN  IF solid = {} THEN <<>> ELSE SubSeq(s, Min(solid), Max(solid))

\* The rest of s after its leading whitespace.
RECURSIVE lstrip(_)
lstrip(s) ==
    IF s # <<>> /\ Head(s) \in Whitespace THEN lstrip(Tail(s)) ELSE s

\* Mutant: re.sub(' +', ' ', s), which leaves tabs and newlines in the text.
RECURSIVE sub_blanks(_)
sub_blanks(s) ==
    IF s = <<>> THEN <<>>
    ELSE IF Head(s) = " " /\ Len(s) > 1 /\ s[2] = " " THEN sub_blanks(Tail(s))
    ELSE <<Head(s)>> \o sub_blanks(Tail(s))

\* re.sub('\s+', ' ', s): every run of whitespace becomes one space.
RECURSIVE sub_space(_)
sub_space(s) ==
    IF s = <<>> THEN <<>>
    ELSE IF Head(s) \in Whitespace THEN <<" ">> \o sub_space(lstrip(s))
    ELSE <<Head(s)>> \o sub_space(Tail(s))

\* Where the match of '<.*?>' that starts at s[n] = "<" ends, or 0 when there is
\* none: the first ">" after n, unless a newline (which '.' does not match)
\* comes before it.
TagEnd(s, n) ==
    LET closers == {m \in (n + 1)..Len(s) : s[m] = ">"}
    IN  IF closers = {} THEN 0
        ELSE IF \E j \in (n + 1)..(Min(closers) - 1) : s[j] = "\n" THEN 0
        ELSE Min(closers)

\* re.compile('<.*?>').sub('', s), scanning from position n: the leftmost match
\* is removed and the scan goes on after it.
RECURSIVE sub_tags_from(_, _)
sub_tags_from(s, n) ==
    IF n > Len(s) THEN <<>>
    ELSE IF s[n] = "<" /\ TagEnd(s, n) # 0 THEN sub_tags_from(s, TagEnd(s, n) + 1)
    ELSE <<s[n]>> \o sub_tags_from(s, n + 1)

sub_tags(s) == sub_tags_from(s, 1)

\* str.isnumeric(), on the characters of the model.
isnumeric(s) == s # <<>> /\ \A n \in 1..Len(s) : s[n] \in Digits

\* Mutant: every word is followed by a space, the last one too.
RECURSIVE join_trailing(_)
join_trailing(list) ==
    IF list = <<>> THEN <<>>
    ELSE list[1] \o <<" ">> \o join_trailing(Tail(list))

\* " ".join(list)
RECURSIVE join(_)
join(list) ==
    IF list = <<>> THEN <<>>
    ELSE IF Len(list) = 1 THEN list[1]
    ELSE list[1] \o <<" ">> \o join(Tail(list))

-----------------------------------------------------------------------------
(* nltk.tokenize.word_tokenize, on text made of letters, digits, whitespace, *)
(* "<" and ">": the Treebank rules put spaces around every bracket, split    *)
(* the contractions of its CONTRACTIONS2 table, and split at whitespace.     *)

Brackets == {"<", ">"}

\* PARENS_BRACKETS: r" \g<0> "
RECURSIVE pad_brackets(_)
pad_brackets(s) ==
    IF s = <<>> THEN <<>>
    ELSE IF Head(s) \in Brackets THEN <<" ", Head(s), " ">> \o pad_brackets(Tail(s))
    ELSE <<Head(s)>> \o pad_brackets(Tail(s))

\* Length of the leading run of non-whitespace of s.
RECURSIVE word_len(_)
word_len(s) ==
    IF s = <<>> \/ Head(s) \in Whitespace THEN 0 ELSE 1 + word_len(Tail(s))

\* str.split()
RECURSIVE split(_)
split(s) ==
    LET t == lstrip(s)
        n == word_len(t)
    IN  IF t = <<>> THEN <<>>
        ELSE <<SubSeq(t, 1, n)>> \o split(SubSeq(t, n + 1, Len(t)))

\* CONTRACTIONS2: cannot, gimme, gonna, gotta, lemme, wanna are cut after their
\* third letter.
Contractions2 ==
    { <<"c","a","n","n","o","t">>, <<"g","i","m","m","e">>, <<"g","o","n","n","a">>,
      <<"g","o","t","t","a">>, <<"l","e","m","m","e">>, <<"w","a","n","n","a">> }

RECURSIVE split_contractions(_)
split_contractions(words) ==
    IF words = <<>> THEN <<>>
    ELSE LET x == Head(words)
         IN  (IF x \in Contractions2
              THEN <<SubSeq(x, 1, 3), SubSeq(x, 4, Len(x))>>
              ELSE <<x>>) \o split_contractions(Tail(words))

word_tokenize(s) == split_contractions(split(pad_brackets(s)))

-----------------------------------------------------------------------------
(* SnowballStemmer('english').stem: a word of at most two letters, or one of *)
(* the stemmer's own stop words, is returned as it is; step 1a removes the   *)
(* plural endings.  The later steps (1b to 5) and the table of special words *)
(* leave every token the inputs of this model can form unchanged.            *)

\* Mutant: the plural endings stay.
Step1aNone(x) == x

Step1a(x) ==
    IF EndsWith(x, <<"s","s","e","s">>) THEN DropLast(x, 2)
    ELSE IF EndsWith(x, <<"i","e","d">>) \/ EndsWith(x, <<"i","e","s">>)
         THEN (IF Len(x) - 3 > 1 THEN DropLast(x, 2) ELSE DropLast(x, 1))
    ELSE IF EndsWith(x, <<"u","s">>) \/ EndsWith(x, <<"s","s">>) THEN x
    ELSE IF EndsWith(x, <<"s">>)
         THEN (IF \E n \in 1..(Len(x) - 2) : x[n] \in Vowels
               THEN DropLast(x, 1) ELSE x)
    ELSE x

stem(stemmer, word) ==
    LET x == lower(word)
    IN  IF x \in stemmer.stopwords \/ Len(x) <= 2 THEN x ELSE Step1a(x)

-----------------------------------------------------------------------------
(* process_text, statement by statement. *)

\* Mutant: the list of the call before is used again, as a mutable default
\* argument would be.
stale_list == result

\* final_text_list=[]
new_list == <<>>

\* Mutant: the check for a missing value is left out.
missing_kept(v) == v

\* if isinstance(sent, str) == False: sent = ""
missing_to_empty(v) == IF isinstance_str(v) = FALSE THEN Str(<<>>) ELSE v

\* Mutant: the stop-word test is left out.
keep_stop_words(word, stopList) == ~isnumeric(word) /\ Len(word) > 2

\* Mutant: len(w) >= 2.
keep_two_letters(word, stopList) ==
    ~isnumeric(word) /\ Len(word) >= 2 /\ ~InList(word, stopList)

\* Mutant: the numeric test is left out.
keep_numbers(word, stopList) == Len(word) > 2 /\ ~InList(word, stopList)

\* (not w.isnumeric()) and (len(w)>2) and (w not in stop_words)
keep(word, stopList) ==
    /\ ~isnumeric(word)
    /\ Len(word) > 2
    /\ ~InList(word, stopList)

\* What the body of the outer loop makes of one element: the text cleaned, its
\* tokens filtered and stemmed, the stems joined.
cleaned(v) ==
    LET text == sub_tags(sub_space(strip(lower(missing_to_empty(v).chars))))
        kept == SelectSeq(word_tokenize(text), LAMBDA x : keep(x, stop_words))
    IN  join([n \in 1..Len(kept) |-> stem(snow, kept[n])])

\* A str method or a regular-expression call on a value that is no str raises.
StrStep(from, to, f(_)) ==
    /\ pc = from
    /\ IF isinstance_str(sent)
       THEN sent' = Str(f(sent.chars)) /\ pc' = to
       ELSE sent' = sent /\ pc' = "raised"
    /\ UNCHANGED << globals, frame, run, texts, it, filtered_sentence, tokens, tk, w,
                    final_string, final_text_list, result, ncalls, ref >>

\* What `result` holds while no call has returned.
NoResult == <<>>

\* def process_text(texts): final_text_list=[]
Call(arg) ==
    /\ pc \in {"start", "returned"}
    /\ texts' = arg
    /\ final_text_list' = new_list
    /\ it' = 0
    /\ result' = NoResult
    /\ ncalls' = ncalls + 1
    /\ pc' = "for_sent"
    /\ UNCHANGED << globals, frame, run, sent, filtered_sentence, tokens, tk, w, final_string,
                    ref >>

\* for sent in texts:
ForSent ==
    /\ pc = "for_sent"
    /\ IF it < Len(texts)
       THEN sent' = texts[it + 1] /\ it' = it + 1 /\ pc' = "isinstance"
       ELSE sent' = sent /\ it' = it /\ pc' = "return"
    /\ UNCHANGED << globals, frame, run, texts, filtered_sentence, tokens, tk, w, final_string,
                    final_text_list, result, ncalls, ref >>

\* Mutant: the empty string is written into the caller's list.
CheckMissingInPlace ==
    /\ pc = "isinstance"
    /\ sent' = missing_to_empty(sent)
    /\ texts' = [texts EXCEPT ![it] = missing_to_empty(sent)]
    /\ filtered_sentence' = <<>>
    /\ pc' = "lower"
    /\ UNCHANGED << globals, frame, run, it, tokens, tk, w, final_string, final_text_list,
                    result, ncalls, ref >>

\* Mutant: filtered_sentence=[] stands before the outer loop, so the stems of
\* one element stay in the list for the next.
CheckMissingKeepList ==
    /\ pc = "isinstance"
    /\ sent' = missing_to_empty(sent)
    /\ pc' = "lower"
    /\ UNCHANGED << globals, frame, run, texts, it, filtered_sentence, tokens, tk, w,
                    final_string, final_text_list, result, ncalls, ref >>

\* if isinstance(sent, str) == False: sent = "";  filtered_sentence=[]
CheckMissing ==
    /\ pc = "isinstance"
    /\ sent' = missing_to_empty(sent)
    /\ filtered_sentence' = <<>>
    /\ pc' = "lower"
    /\ UNCHANGED << globals, frame, run, texts, it, tokens, tk, w, final_string,
                    final_text_list, result, ncalls, ref >>

\* sent = sent.lower()
Lower == StrStep("lower", "strip", lower)

\* sent = sent.strip()
Strip == StrStep("strip", "sub_space", strip)

\* sent = re.sub('\s+', ' ', sent)
SubSpace == StrStep("sub_space", "sub_tags", sub_space)

\* sent = re.compile('<.*?>').sub('', sent)
SubTags == StrStep("sub_tags", "word_tokenize", sub_tags)

\* word_tokenize(sent), evaluated once when the inner loop starts
Tokenize ==
    /\ pc = "word_tokenize"
    /\ tokens' = word_tokenize(sent.chars)
    /\ tk' = 0
    /\ pc' = "for_w"
    /\ UNCHANGED << globals, frame, run, texts, it, sent, filtered_sentence, w, final_string,
                    final_text_list, result, ncalls, ref >>

\* Mutant: while not filtered_sentence: for w in ...: the token loop starts
\* again as long as no token was kept.
ForWUntilKept ==
    /\ pc = "for_w"
    /\ IF tk < Len(tokens)
       THEN w' = tokens[tk + 1] /\ tk' = tk + 1 /\ pc' = "if_w"
       ELSE IF filtered_sentence = <<>>
            THEN w' = w /\ tk' = 0 /\ pc' = "for_w"
            ELSE w' = w /\ tk' = tk /\ pc' = "join"
    /\ UNCHANGED << globals, frame, run, texts, it, sent, filtered_sentence, tokens,
                    final_string, final_text_list, result, ncalls, ref >>

\* for w in word_tokenize(sent):
ForW ==
    /\ pc = "for_w"
    /\ IF tk < Len(tokens)
       THEN w' = tokens[tk + 1] /\ tk' = tk + 1 /\ pc' = "if_w"
       ELSE w' = w /\ tk' = tk /\ pc' = "join"
    /\ UNCHANGED << globals, frame, run, texts, it, sent, filtered_sentence, tokens,
                    final_string, final_text_list, result, ncalls, ref >>

\* Mutant: the token is stemmed first and the three tests look at the stem.
FilterStemFirst ==
    /\ pc = "if_w"
    /\ filtered_sentence' =
          IF keep(stem(snow, w), stop_words)
          THEN Append(filtered_sentence, stem(snow, w))
          ELSE filtered_sentence
    /\ pc' = "for_w"
    /\ UNCHANGED << globals, frame, run, texts, it, sent, tokens, tk, w, final_string,
                    final_text_list, result, ncalls, ref >>

\* if ...: filtered_sentence.append(snow.stem(w))
Filter ==
    /\ pc = "if_w"
    /\ filtered_sentence' =
          IF keep(w, stop_words)
          THEN Append(filtered_sentence, stem(snow, w))
          ELSE filtered_sentence
    /\ pc' = "for_w"
    /\ UNCHANGED << globals, frame, run, texts, it, sent, tokens, tk, w, final_string,
                    final_text_list, result, ncalls, ref >>

\* Mutant: final_string = " ".join(filtered_sentence) or None
JoinOrNone ==
    /\ pc = "join"
    /\ final_string' =
          IF filtered_sentence = <<>> THEN None ELSE Str(join(filtered_sentence))
    /\ pc' = "append"
    /\ UNCHANGED << globals, frame, run, texts, it, sent, filtered_sentence, tokens, tk, w,
                    final_text_list, result, ncalls, ref >>

\* final_string = " ".join(filtered_sentence)
Join ==
    /\ pc = "join"
    /\ final_string' = Str(join(filtered_sentence))
    /\ pc' = "append"
    /\ UNCHANGED << globals, frame, run, texts, it, sent, filtered_sentence, tokens, tk, w,
                    final_text_list, result, ncalls, ref >>

\* Mutant: an element that cleans to "" is not appended.
AppendFinalSkipEmpty ==
    /\ pc = "append"
    /\ final_text_list' =
          IF final_string.chars = <<>> THEN final_text_list
          ELSE Append(final_text_list, final_string)
    /\ pc' = "for_sent"
    /\ UNCHANGED << globals, frame, run, texts, it, sent, filtered_sentence, tokens, tk, w,
                    final_string, result, ncalls, ref >>

\* final_text_list.append(final_string)
AppendFinal ==
    /\ pc = "append"
    /\ final_text_list' = Append(final_text_list, final_string)
    /\ pc' = "for_sent"
    /\ UNCHANGED << globals, frame, run, texts, it, sent, filtered_sentence, tokens, tk, w,
                    final_string, result, ncalls, ref >>

\* return final_text_list: the caller gets the list, the frame and its locals go.
Return ==
    /\ pc = "return"
    /\ result' = final_text_list
    /\ pc' = "returned"
    /\ it' = 0
    /\ sent' = Str(<<>>)
    /\ filtered_sentence' = <<>>
    /\ tokens' = <<>>
    /\ tk' = 0
    /\ w' = <<>>
    /\ final_string' = Str(<<>>)
    /\ final_text_list' = <<>>
    /\ UNCHANGED << globals, frame, run, texts, ncalls, ref >>

\* The observer keeps the argument and the result of one returned call.
NoRef == [call |-> 0, arg |-> <<>>, out |-> <<>>]

Observe ==
    /\ pc = "returned"
    /\ ref = NoRef
    /\ ref' = [call |-> ncalls, arg |-> texts, out |-> result]
    /\ UNCHANGED << globals, frame, run, texts, pc, locals, result, ncalls >>

\* process_text(process_text(...)): the list a call returned is the argument
\* of the next call.
Recall ==
    /\ pc = "returned"
    /\ ref.call # 0
    /\ Call(result)

Step ==
    \/ ForSent
    \/ CheckMissing
    \/ Lower
    \/ Strip
    \/ SubSpace
    \/ SubTags
    \/ Tokenize
    \/ ForW
    \/ Filter
    \/ Join
    \/ AppendFinal
    \/ Return

-----------------------------------------------------------------------------
(* Concurrent callers.  Every call of process_text has its own locals, kept  *)
(* here in one frame per caller; stop_words and snow are the globals all     *)
(* callers read.  A caller runs one statement at a time, in any order with   *)
(* the statements of the others.                                             *)

Callers == 1..NCallers

\* A caller that has not called yet.
NoFrame ==
    [ pc |-> "start", texts |-> <<>>, it |-> 0, sent |-> Str(<<>>),
      filtered_sentence |-> <<>>, tokens |-> <<>>, tk |-> 0, w |-> <<>>,
      final_string |-> Str(<<>>), final_text_list |-> <<>>, result |-> NoResult ]

\* A str method or a regular-expression call, in a frame.
str_step(f, to, text) ==
    IF isinstance_str(f.sent)
    THEN [f EXCEPT !.sent = Str(text), !.pc = to]
    ELSE [f EXCEPT !.pc = "raised"]

\* The frame after the statement it is at.
advance(f) ==
    CASE f.pc = "for_sent" ->
            IF f.it < Len(f.texts)
            THEN [f EXCEPT !.sent = f.texts[f.it + 1], !.it = f.it + 1,
                           !.pc = "isinstance"]
            ELSE [f EXCEPT !.pc = "return"]
      [] f.pc = "isinstance" ->
            [f EXCEPT !.sent = missing_to_empty(f.sent), !.filtered_sentence = <<>>,
                      !.pc = "lower"]
      [] f.pc = "lower" -> str_step(f, "strip", lower(f.sent.chars))
      [] f.pc = "strip" -> str_step(f, "sub_space", strip(f.sent.chars))
      [] f.pc = "sub_space" -> str_step(f, "sub_tags", sub_space(f.sent.chars))
      [] f.pc = "sub_tags" -> str_step(f, "word_tokenize", sub_tags(f.sent.chars))
      [] f.pc = "word_tokenize" ->
            [f EXCEPT !.tokens = word_tokenize(f.sent.chars), !.tk = 0, !.pc = "for_w"]
      [] f.pc = "for_w" ->
            IF f.tk < Len(f.tokens)
            THEN [f EXCEPT !.w = f.tokens[f.tk + 1], !.tk = f.tk + 1, !.pc = "if_w"]
            ELSE [f EXCEPT !.pc = "join"]
      [] f.pc = "if_w" ->
            [f EXCEPT !.filtered_sentence =
                          IF keep(f.w, stop_words)
                          THEN Append(f.filtered_sentence, stem(snow, f.w))
                          ELSE f.filtered_sentence,
                      !.pc = "for_w"]
      [] f.pc = "join" ->
            [f EXCEPT !.final_string = Str(join(f.filtered_sentence)), !.pc = "append"]
      [] f.pc = "append" ->
            [f EXCEPT !.final_text_list = Append(f.final_text_list, f.final_string),
                      !.pc = "for_sent"]
      [] f.pc = "return" ->
            [NoFrame EXCEPT !.pc = "returned", !.texts = f.texts,
                            !.result = f.final_text_list]

\* Caller c calls process_text(arg).
Start(c, arg) ==
    /\ frame[c].pc = "start"
    /\ frame' = [frame EXCEPT ![c] = [NoFrame EXCEPT !.pc = "for_sent", !.texts = arg,
                                                    !.final_text_list = new_list]]
    /\ UNCHANGED << globals, process, run >>

\* Mutant: filtered_sentence is a list of the module, the same for every
\* caller, so what one caller writes the others find in theirs.
RunShared(c) ==
    /\ frame[c].pc \notin {"start", "returned", "raised"}
    /\ frame' = [d \in Callers |->
                    IF d = c THEN advance(frame[c])
                    ELSE [frame[d] EXCEPT
                             !.filtered_sentence = advance(frame[c]).filtered_sentence]]
    /\ UNCHANGED << globals, process, run >>

\* Caller c runs the statement it is at.
Run(c) ==
    /\ frame[c].pc \notin {"start", "returned", "raised"}
    /\ frame' = [frame EXCEPT ![c] = advance(frame[c])]
    /\ UNCHANGED << globals, process, run >>

-----------------------------------------------------------------------------
(* The run of the notebook from the split of the data on: cells 18 and 30 to *)
(* 38.  SageMaker is the environment: it finishes or fails the training job  *)
(* and brings the endpoint into service or fails to.  fit and deploy wait    *)
(* for it (wait=True is their default) and raise when it failed; a cell that *)
(* raises stops the run.                                                     *)

\* X_test.shape[0] in the notebook's output
TestSetRows == 7000

\* np.array_split(..., 25)
Sections == 25

\* np.array_split: Neach_section, extras = divmod(Ntotal, Nsections);
\* section_sizes = extras * [Neach_section+1] + (Nsections-extras) * [Neach_section]
section_sizes(rows, n) ==
    [k \in 1..n |-> IF k <= rows % n THEN (rows \div n) + 1 ELSE rows \div n]

\* np.cumsum of the first k sizes
RECURSIVE cumsum(_, _)
cumsum(sizes, k) == IF k = 0 THEN 0 ELSE cumsum(sizes, k - 1) + sizes[k]

\* np.array_split(ary, n) of an array of so many rows: the sub-arrays
\* ary[div_points[i] : div_points[i + 1]], each given by its first and last row.
array_split(rows, n) ==
    LET sizes == section_sizes(rows, n)
    IN  [k \in 1..Len(sizes) |->
            [first |-> cumsum(sizes, k - 1) + 1, last |-> cumsum(sizes, k)]]

\* len(batch)
len(batch) == batch.last - batch.first + 1

\* The sizes a test set can have: the notebook's, and the small ones.
TestRows == {TestSetRows} \cup 1..MaxRows

\* X_val, X_test, y_val, y_test = train_test_split(...)
TrainTestSplit(rows) ==
    /\ cell = "train_test_split"
    /\ X_test' = rows
    /\ cell' = "fit"
    /\ UNCHANGED << globals, process, frame, job, endpoint, batches, prediction_batches >>

\* linear_classifier.fit([...], logs=False): the training job is started
Fit ==
    /\ cell = "fit"
    /\ job' = "InProgress"
    /\ cell' = "fit_wait"
    /\ UNCHANGED << globals, process, frame, endpoint, X_test, batches,
                    prediction_batches >>

\* SageMaker: the training job completes.
TrainingCompleted ==
    /\ job = "InProgress"
    /\ job' = "Completed"
    /\ UNCHANGED << globals, process, frame, cell, endpoint, X_test, batches,
                    prediction_batches >>

\* SageMaker: the training job fails.
TrainingFailed ==
    /\ job = "InProgress"
    /\ job' = "Failed"
    /\ UNCHANGED << globals, process, frame, cell, endpoint, X_test, batches,
                    prediction_batches >>

\* fit returns when the job has completed and raises when it has failed.
FitReturns ==
    /\ cell = "fit_wait"
    /\ job \in {"Completed", "Failed"}
    /\ cell' = IF job = "Completed" THEN "deploy" ELSE "stopped"
    /\ UNCHANGED << globals, process, frame, job, endpoint, X_test, batches,
                    prediction_batches >>

\* linear_classifier.deploy(...): the endpoint is created from the model of the
\* completed training job; without one deploy raises.
Deploy ==
    /\ cell = "deploy"
    /\ IF job = "Completed"
       THEN endpoint' = "Creating" /\ cell' = "deploy_wait"
       ELSE endpoint' = endpoint /\ cell' = "stopped"
    /\ UNCHANGED << globals, process, frame, job, X_test, batches, prediction_batches >>

\* SageMaker: the endpoint comes into service.
EndpointInService ==
    /\ endpoint = "Creating"
    /\ endpoint' = "InService"
    /\ UNCHANGED << globals, process, frame, cell, job, X_test, batches,
                    prediction_batches >>

\* SageMaker: the endpoint cannot be brought into service.
EndpointFailed ==
    /\ endpoint = "Creating"
    /\ endpoint' = "Failed"
    /\ UNCHANGED << globals, process, frame, cell, job, X_test, batches,
                    prediction_batches >>

\* deploy returns the predictor when the endpoint is in service and raises
\* when it has failed.
DeployReturns ==
    /\ cell = "deploy_wait"
    /\ endpoint \in {"InService", "Failed"}
    /\ cell' = IF endpoint = "InService" THEN "array_split" ELSE "stopped"
    /\ UNCHANGED << globals, process, frame, job, endpoint, X_test, batches,
                    prediction_batches >>

\* np.array_split(X_test.astype("float32"), 25), evaluated once when the
\* comprehension starts
ArraySplit ==
    /\ cell = "array_split"
    /\ batches' = array_split(X_test, Sections)
    /\ prediction_batches' = <<>>
    /\ cell' = "predict"
    /\ UNCHANGED << globals, process, frame, job, endpoint, X_test >>

\* [linear_classifier_predictor.predict(batch) for batch in ...]: the next
\* batch is sent and one prediction per row comes back (kept here as the rows
\* predicted); a call to an endpoint that is not in service raises.  After the
\* last batch the comprehension ends.
Predict ==
    /\ cell = "predict"
    /\ IF Len(prediction_batches) < Len(batches)
       THEN IF endpoint = "InService"
            THEN /\ prediction_batches' =
                       Append(prediction_batches, batches[Len(prediction_batches) + 1])
                 /\ cell' = cell
            ELSE prediction_batches' = prediction_batches /\ cell' = "stopped"
       ELSE prediction_batches' = prediction_batches /\ cell' = "print"
    /\ UNCHANGED << globals, process, frame, job, endpoint, X_test, batches >>

\* print([... for pred in prediction_batches[0]])
PrintScores ==
    /\ cell = "print"
    /\ cell' = "delete_endpoint"
    /\ UNCHANGED << globals, process, frame, job, endpoint, X_test, batches,
                    prediction_batches >>

\* Mutant: the last cell is not run.
DeleteEndpointForgotten ==
    /\ cell = "delete_endpoint"
    /\ cell' = "end"
    /\ UNCHANGED << globals, process, frame, job, endpoint, X_test, batches,
                    prediction_batches >>

\* sagemaker_session.delete_endpoint(linear_classifier_predictor.endpoint)
DeleteEndpoint ==
    /\ cell = "delete_endpoint"
    /\ endpoint' = "none"
    /\ cell' = "end"
    /\ UNCHANGED << globals, process, frame, job, X_test, batches, prediction_batches >>

-----------------------------------------------------------------------------
(* The inputs. *)

\* The fragments the input strings of SpecElem are made of.
Pieces ==
    { <<"n","o","t">>, <<"W","A","S">>, <<"w","a","s">>, <<"c","a","t","s">>,
      <<"o","k">>, <<"1","2">>, <<" ">>, <<"\t">>, <<"\n">>, <<"<">>, <<">">>,
      <<"<","b",">">> }

RECURSIVE PieceStrings(_)
PieceStrings(n) ==
    IF n = 0 THEN {<<>>}
    ELSE PieceStrings(n - 1)
           \cup {s \o p : s \in PieceStrings(n - 1), p \in Pieces}

\* "   HELLO    world  "
ExHello ==
    << " ", " ", " ", "H", "E", "L", "L", "O", " ", " ", " ", " ",
       "w", "o", "r", "l", "d", " ", " " >>

\* "<b>Not bad</b> at all"
ExNotBad ==
    << "<", "b", ">", "N", "o", "t", " ", "b", "a", "d", "<", "/", "b", ">",
       " ", "a", "t", " ", "a", "l", "l" >>

\* "123 456"
ExNumbers == << "1", "2", "3", " ", "4", "5", "6" >>

\* "a it is"
ExShort == << "a", " ", "i", "t", " ", "i", "s" >>

\* "I cannot"
ExCannot == << "I", " ", "c", "a", "n", "n", "o", "t" >>

\* "hows", whose stem "how" is a stop word
ExHows == << "h", "o", "w", "s" >>

Examples == {ExHello, ExNotBad, ExNumbers, ExShort, ExCannot, ExHows}

\* The words of the exclusion list the tokenizer hands over whole: those
\* without an apostrophe.
ExcludedWords ==
    { excludingWords[n] : n \in { m \in 1..Len(excludingWords) :
                                    ~InList("'", excludingWords[m]) } }

\* One-element arguments: every string of at most MaxPieces pieces, the
\* examples, the words of the exclusion list, and the values that are no str.
ElemInputs ==
    {<<Str(s)>> : s \in PieceStrings(MaxPieces) \cup Examples \cup ExcludedWords}
      \cup {<<None>>, <<NaN>>, <<Int5>>}

\* The values the arguments of Spec are made of: a missing value, a string that
\* cleans to "", and two that clean to different non-empty strings.
Values ==
    { NaN,
      Str(<<" ", "w", "a", "s">>),
      Str(<<"N", "o", "t">>),
      Str(<<"c", "a", "t", "s">>) }

RECURSIVE SeqsUpTo(_, _)
SeqsUpTo(S, n) ==
    IF n = 0 THEN {<<>>}
    ELSE SeqsUpTo(S, n - 1)
           \cup {Append(s, v) : s \in {t \in SeqsUpTo(S, n - 1) : Len(t) = n - 1}, v \in S}

SeqInputs == SeqsUpTo(Values, MaxTexts)

-----------------------------------------------------------------------------
(* The specifications. *)

Init ==
    /\ excluding = excludingWords
    /\ stop_words = reduced(stop, excludingWords)
    /\ snow = SnowballStemmer
    /\ texts = <<>>
    /\ pc = "start"
    /\ it = 0
    /\ sent = Str(<<>>)
    /\ filtered_sentence = <<>>
    /\ tokens = <<>>
    /\ tk = 0
    /\ w = <<>>
    /\ final_string = Str(<<>>)
    /\ final_text_list = <<>>
    /\ result = NoResult
    /\ ncalls = 0
    /\ ref = NoRef
    /\ frame = [c \in Callers |-> NoFrame]
    /\ cell = "train_test_split"
    /\ job = "none"
    /\ endpoint = "none"
    /\ X_test = 0
    /\ batches = <<>>
    /\ prediction_batches = <<>>

\* Calls with sequences of values, one after the other, watched by the observer.
Next ==
    \/ ncalls < MaxCalls /\ \E arg \in SeqInputs : Call(arg)
    \/ Step
    \/ Observe

Spec == Init /\ [][Next]_vars

\* One call with one element.
NextElem ==
    \/ pc = "start" /\ \E arg \in ElemInputs : Call(arg)
    \/ Step

SpecElem == Init /\ [][NextElem]_vars

\* One-element arguments for the calls whose result is cleaned again: the
\* strings one piece shorter than those of SpecElem, and the examples.
AgainInputs == {<<Str(s)>> : s \in PieceStrings(MaxPieces - 1) \cup Examples}

\* One call with one element, then calls with what the call before returned.
NextAgain ==
    \/ pc = "start" /\ \E arg \in AgainInputs : Call(arg)
    \/ Step
    \/ Observe
    \/ ncalls < MaxCalls /\ Recall

SpecAgain == Init /\ [][NextAgain]_vars

\* Arguments for the runs that are followed to their end: the lists of up to
\* MaxTexts values, and three of the examples: "123 456" and "I cannot" have
\* two and three tokens.
LoopInputs == SeqInputs \cup {<<Str(s)>> : s \in {ExNumbers, ExCannot, ExHows}}

\* One call. The interpreter goes on to the next statement of a running call,
\* which is weak fairness of the steps of process_text.
NextLoop ==
    \/ pc = "start" /\ \E arg \in LoopInputs : Call(arg)
    \/ Step

FairSpecLoop == Init /\ [][NextLoop]_vars /\ WF_vars(Step)

\* One-element arguments of the concurrent callers.
ParInputs == {<<v>> : v \in Values}

\* NCallers callers, each with one call, their statements interleaved.
NextPar ==
    \E c \in Callers :
        \/ \E arg \in ParInputs : Start(c, arg)
        \/ Run(c)

SpecPar == Init /\ [][NextPar]_vars

\* The notebook run from top to bottom, with SageMaker's part in it.
NextRun ==
    \/ \E rows \in TestRows : TrainTestSplit(rows)
    \/ Fit
    \/ TrainingCompleted
    \/ TrainingFailed
    \/ FitReturns
    \/ Deploy
    \/ EndpointInService
    \/ EndpointFailed
    \/ DeployReturns
    \/ ArraySplit
    \/ Predict
    \/ PrintScores
    \/ DeleteEndpoint

SpecRun == Init /\ [][NextRun]_vars

-----------------------------------------------------------------------------
(* The claims. *)

\* C1: process_text returns one element per input element, in the input's
\* order: the result has the length of the argument and its element i is the
\* cleaned form of the argument's element i, also when that is the empty
\* string; while the loop runs the list holds one element per element taken.
C1_LengthAndOrder ==
    /\ pc = "for_sent" => Len(final_text_list) = it
    /\ pc = "returned" =>
          /\ Len(result) = Len(texts)
          /\ \A i \in 1..Len(texts) : result[i] = Str(cleaned(texts[i]))

\* A returned call of two strings whose first cleaned to "" and whose second
\* did not.
C1_Witness ==
    /\ pc = "returned"
    /\ texts = << Str(<<" ", "w", "a", "s">>), Str(<<"c", "a", "t", "s">>) >>
    /\ result = << Str(<<>>), Str(<<"c", "a", "t">>) >>

\* C2: an element that is no str (None, NaN, a number) gives the empty string
\* at its position, no statement raises, and every element of the result is a
\* str.
C2_MissingToEmpty ==
    /\ pc # "raised"
    /\ pc = "returned" =>
          /\ Len(result) = Len(texts)
          /\ \A i \in 1..Len(result) :
                /\ isinstance_str(result[i])
                /\ ~isinstance_str(texts[i]) => result[i] = Str(<<>>)

\* A returned call whose argument was [None], with the result [""].
C2_Witness ==
    /\ pc = "returned"
    /\ texts = <<None>>
    /\ result = <<Str(<<>>)>>

\* The three tests of the filter as the specification words them: not purely
\* numeric, longer than two characters, and not a standard stop word unless
\* the exclusion list names it.
Retained(x) ==
    /\ ~(x # <<>> /\ \A n \in 1..Len(x) : x[n] \in Digits)
    /\ Len(x) > 2
    /\ ~(InList(x, stop) /\ ~InList(x, excludingWords))

\* C3: a token is retained if and only if it passes all three tests: once the
\* inner loop has taken tk tokens, filtered_sentence holds the stems of exactly
\* those of them that pass, in their order.
C3_RetainedIffAllThree ==
    pc \in {"for_w", "join"} =>
        LET kept == SelectSeq(SubSeq(tokens, 1, tk), Retained)
        IN  filtered_sentence = [n \in 1..Len(kept) |-> stem(snow, kept[n])]

\* The inner loop has ended on a stop word, which was discarded, and a word
\* that was retained.
C3_Witness ==
    /\ pc = "join"
    /\ tokens = << <<"w", "a", "s">>, <<"c", "a", "t", "s">> >>
    /\ filtered_sentence = << <<"c", "a", "t">> >>

\* C4: a token of length 2 or less is discarded whatever it holds (the filter
\* step leaves filtered_sentence as it was), and "a it is" gives "".
C4_ShortTokensDiscarded ==
    /\ [][(pc = "if_w" /\ Len(w) <= 2) => filtered_sentence' = filtered_sentence]_vars
    /\ [](pc = "returned" /\ texts = <<Str(ExShort)>> => result = <<Str(<<>>)>>)

\* The token "ok", of length 2, no number and no stop word, has been filtered
\* and nothing was kept.
C4_Witness ==
    /\ pc = "for_w"
    /\ tk = 1
    /\ w = <<"o", "k">>
    /\ ~InList(w, stop)
    /\ filtered_sentence = <<>>

\* C5: a token made of digits only is discarded whatever its length (the
\* filter step leaves filtered_sentence as it was), and "123 456" gives "".
C5_NumericTokensDiscarded ==
    /\ [][(pc = "if_w" /\ w # <<>> /\ \A n \in 1..Len(w) : w[n] \in Digits)
            => filtered_sentence' = filtered_sentence]_vars
    /\ [](pc = "returned" /\ texts = <<Str(ExNumbers)>> => result = <<Str(<<>>)>>)

\* The token "1212", longer than two characters, has been filtered and nothing
\* was kept.
C5_Witness ==
    /\ pc = "for_w"
    /\ tk = 1
    /\ w = <<"1", "2", "1", "2">>
    /\ filtered_sentence = <<>>

\* C6: every word of the exclusion list passes the numeric, the length and the
\* stop-word test (looked at before the call, the lists being the same ever
\* after); a token equal to one has its stem appended; and the output for
\* "<b>Not bad</b> at all" is "not bad", which holds "not".
C6_ExcludedWordsKept ==
    /\ pc = "start" =>
          \A n \in 1..Len(excluding) :
              /\ ~isnumeric(excluding[n])
              /\ Len(excluding[n]) > 2
              /\ ~InList(excluding[n], stop_words)
    /\ (pc = "for_w" /\ tk > 0 /\ InList(w, excluding)) =>
          /\ filtered_sentence # <<>>
          /\ filtered_sentence[Len(filtered_sentence)] = stem(snow, w)
    /\ (pc = "returned" /\ texts = <<Str(ExNotBad)>>) =>
          result = <<Str(<<"n", "o", "t", " ", "b", "a", "d">>)>>

\* The token "against", a word of NLTK's list and of the exclusion list, has
\* been filtered and its stem kept.
C6_Witness ==
    /\ pc = "for_w"
    /\ tk = 1
    /\ w = <<"a", "g", "a", "i", "n", "s", "t">>
    /\ InList(w, stop)
    /\ filtered_sentence = <<w>>

\* A "<" with a ">" somewhere after it.
HasTag(s) == \E i \in 1..Len(s) : \E j \in (i + 1)..Len(s) : s[i] = "<" /\ s[j] = ">"

\* C7: the tags are removed before the text is tokenized: the text handed to
\* word_tokenize holds no "<" followed, anywhere later, by ">", and neither
\* does any output string.
C7_NoTagReachesTokenizer ==
    /\ pc = "word_tokenize" => ~HasTag(sent.chars)
    /\ pc = "append" => ~HasTag(final_string.chars)
    /\ pc = "returned" => \A i \in 1..Len(result) : ~HasTag(result[i].chars)

\* The text is about to be tokenized and the raw input held a tag that spans a
\* newline, inside another "<".
C7_Witness ==
    /\ pc = "word_tokenize"
    /\ texts \in { <<Str(<<"<", "\n", ">">>)>>, <<Str(<<"<", "<", "\n", ">">>)>> }
    /\ ~HasTag(sent.chars)

\* C8: the empty string gives the empty string, an element all of whose
\* tokens are filtered away gives the empty string, and no element of the
\* result is a missing value.
C8_EmptyStaysString ==
    /\ (pc = "append" /\ \A n \in 1..Len(tokens) : ~Retained(tokens[n])) =>
          final_string = Str(<<>>)
    /\ (pc = "returned" /\ texts = <<Str(<<>>)>>) => result = <<Str(<<>>)>>
    /\ pc = "returned" => \A i \in 1..Len(result) : isinstance_str(result[i])

\* An element whose only token is a stop word has been joined to "".
C8_Witness ==
    /\ pc = "append"
    /\ tokens = << <<"w", "a", "s">> >>
    /\ final_string = Str(<<>>)

\* C9: process_text changes nothing but what it builds: no step changes the
\* exclusion list, the stop-word list or the stemmer, and from the call to the
\* return the caller's sequence and its elements stay as they were passed.
C9_NoSideEffects ==
    [][ /\ excluding' = excluding
        /\ stop_words' = stop_words
        /\ snow' = snow
        /\ pc \notin {"start", "returned"} => texts' = texts ]_vars

\* A call whose argument held a missing value has returned, and the argument
\* still holds it.
C9_Witness ==
    /\ pc = "returned"
    /\ texts = << NaN, Str(<<"N", "o", "t">>) >>
    /\ result = << Str(<<>>), Str(<<"n", "o", "t">>) >>

\* C10: two calls with equal arguments return equal results, whatever was
\* called before: a returned call whose argument equals that of the call the
\* observer kept has that call's result.
C10_Deterministic ==
    (pc = "returned" /\ ref.call # 0 /\ ref.arg = texts) => ref.out = result

\* A later call than the one the observer kept has returned, with the same
\* two-element argument and the same result.
C10_Witness ==
    /\ pc = "returned"
    /\ ref.call # 0
    /\ ref.call < ncalls
    /\ ref.arg = texts
    /\ Len(texts) = 2
    /\ ref.out = result

\* What a call returns when it runs alone.
Alone(arg) == [i \in 1..Len(arg) |-> Str(cleaned(arg[i]))]

\* C11: concurrent callers do not interfere: no step writes the globals, a step
\* of one caller leaves the frames of the others as they are, and a caller that
\* returns, however its statements were interleaved with the others', returns
\* what its call returns when run alone.
C11_NoInterference ==
    [][ /\ globals' = globals
        /\ \A c \in Callers :
              /\ frame'[c] # frame[c] =>
                    \A d \in Callers \ {c} : frame'[d] = frame[d]
              /\ (frame[c].pc = "return" /\ frame'[c].pc = "returned") =>
                    frame'[c].result = Alone(frame'[c].texts)
      ]_vars

\* Two calls are under way at once: caller 1 is filtering the token "cats"
\* while caller 2, having kept "not", is about to join.
C11_Witness ==
    /\ frame[1].pc = "if_w"
    /\ frame[1].w = <<"c", "a", "t", "s">>
    /\ frame[2].pc = "join"
    /\ frame[2].filtered_sentence = <<<<"n", "o", "t">>>>

\* C12: process_text is not idempotent: there is an input whose result, cleaned
\* again, is a different string. "hows" is kept and stemmed to "how"; "how" is a
\* stop word, so the second call drops it and returns the empty string.
C12_NotIdempotent ==
    (pc = "returned" /\ ncalls = 2 /\ ref.call = 1 /\ ref.arg = <<Str(ExHows)>>) =>
        /\ texts = ref.out
        /\ ref.out = <<Str(<<"h", "o", "w">>)>>
        /\ result = <<Str(<<>>)>>
        /\ result # ref.out

\* The second call, on what the call with "hows" returned, has returned.
C12_Witness ==
    /\ pc = "returned"
    /\ ncalls = 2
    /\ ref.call = 1
    /\ ref.arg = <<Str(ExHows)>>
    /\ texts = <<Str(<<"h", "o", "w">>)>>
    /\ result = <<Str(<<>>)>>

\* The text in lower case, without leading and trailing whitespace and with one
\* space for every other run of whitespace: texts that differ only in case and
\* layout have the same Squeeze.
Squeeze(s) == join(split([n \in 1..Len(s) |-> LowerChar(s[n])]))

\* C13: the result for a string depends on the string only up to letter case,
\* leading and trailing whitespace and the length of whitespace runs: it is the
\* result for the squeezed lower-case text, so upper-case stop words are removed
\* like lower-case ones.
C13_CaseAndLayoutInsensitive ==
    (pc = "returned" /\ isinstance_str(texts[1])) =>
        result = <<Str(cleaned(Str(Squeeze(texts[1].chars))))>>

\* "\tWAS\n" has been cleaned: the upper-case stop word is gone.
C13_Witness ==
    /\ pc = "returned"
    /\ texts = <<Str(<<"\t", "W", "A", "S", "\n">>)>>
    /\ Squeeze(texts[1].chars) = <<"w", "a", "s">>
    /\ result = <<Str(<<>>)>>

\* No space at either end and no two spaces in a row.
Tidy(s) ==
    \/ s = <<>>
    \/ /\ s[1] # " "
       /\ s[Len(s)] # " "
       /\ \A n \in 1..(Len(s) - 1) : ~(s[n] = " " /\ s[n + 1] = " ")

\* C14: the string of an element is its stems joined by exactly one space each:
\* one whitespace character fewer than stems, no space at either end, no two
\* spaces in a row, whatever the layout of the text the tokenizer was given.
C14_SingleSpaces ==
    /\ pc = "append" =>
          /\ final_string.type = "str"
          /\ Tidy(final_string.chars)
          /\ Cardinality({n \in 1..Len(final_string.chars) :
                            final_string.chars[n] \in Whitespace})
               = (IF filtered_sentence = <<>> THEN 0 ELSE Len(filtered_sentence) - 1)
          /\ \A n \in 1..Len(filtered_sentence) :
                \A m \in 1..Len(filtered_sentence[n]) :
                    filtered_sentence[n][m] \notin Whitespace
    /\ pc = "returned" => \A i \in 1..Len(result) : Tidy(result[i].chars)

\* Removing the tag of "<b> cats" left a space in front of the text the
\* tokenizer was given; the joined string is the one stem.
C14_Witness ==
    /\ pc = "append"
    /\ texts = <<Str(<<"<", "b", ">", " ", "c", "a", "t", "s">>)>>
    /\ sent.chars = <<" ", "c", "a", "t", "s">>
    /\ ~Tidy(sent.chars)
    /\ final_string.chars = <<"c", "a", "t">>

\* C15: the three tests are made on the token as the tokenizer gave it, and the
\* stem of a retained token is appended without being tested again: the list has
\* one stem per retained token, in the tokens' order, and "hows" comes out as
\* "how" although "how" is a stop word.
C15_StemNotFilteredAgain ==
    /\ pc = "join" =>
          LET kept == SelectSeq(tokens, Retained)
          IN  /\ Len(filtered_sentence) = Len(kept)
              /\ \A n \in 1..Len(kept) : filtered_sentence[n] = stem(snow, kept[n])
    /\ (pc = "returned" /\ texts = <<Str(ExHows)>>) =>
          result = <<Str(<<"h", "o", "w">>)>>

\* "hows" has been cleaned to "how", a word of the reduced stop list.
C15_Witness ==
    /\ pc = "returned"
    /\ texts = <<Str(ExHows)>>
    /\ result = <<Str(<<"h", "o", "w">>)>>
    /\ InList(<<"h", "o", "w">>, stop_words)

\* C16: the result for a list is the results for its parts put together, since
\* the accumulator is reset for every element: where the argument of the call
\* the observer kept is the front or the back part of a later argument, its
\* result is the front or the back part of the later result.
C16_ConcatenationOfParts ==
    (pc = "returned" /\ ref.call # 0) =>
        \A k \in 0..Len(texts) :
            /\ SubSeq(texts, 1, k) = ref.arg => SubSeq(result, 1, k) = ref.out
            /\ SubSeq(texts, k + 1, Len(texts)) = ref.arg =>
                  SubSeq(result, k + 1, Len(texts)) = ref.out

\* A call with two elements has returned; the first element has a stem, and the
\* observer kept a call with the second element alone, whose result is the
\* second string.
C16_Witness ==
    /\ pc = "returned"
    /\ ref.call # 0
    /\ Len(texts) = 2
    /\ result[1].chars # <<>>
    /\ ref.arg = <<texts[2]>>
    /\ ref.out = <<result[2]>>
    /\ ref.out[1].chars # <<>>

\* One step of a single pass: the place in the list and the place in the token
\* list go forward by one, in the loop headers only, and are set back to the
\* beginning only where the tokens of the next element are made and at the
\* return.
SinglePass ==
    /\ it' # it =>
          \/ pc = "for_sent" /\ it' = it + 1 /\ it' <= Len(texts)
          \/ pc = "return" /\ it' = 0
    /\ tk' # tk =>
          \/ pc = "for_w" /\ tk' = tk + 1 /\ tk' <= Len(tokens)
          \/ pc \in {"word_tokenize", "return"} /\ tk' = 0

\* C18: a call with a finite list comes to its return, with one string per
\* element, after a single pass over the list and over the tokens of each
\* element: no loop of process_text goes back.
C18_TerminatesInOnePass ==
    /\ [][SinglePass]_vars
    /\ (pc \notin {"start", "returned"}) ~> (pc = "returned" /\ Len(result) = Len(texts))

\* A call with two elements has returned two strings.
C18_Witness ==
    /\ pc = "returned"
    /\ Len(texts) = 2
    /\ Len(result) = 2
    /\ result[2].chars # <<>>

\* The place of a word in a list without repetitions.
PosIn(word, list) == CHOOSE n \in 1..Len(list) : list[n] = word

\* C17: before any call the reduced stop list is NLTK's list without the words
\* of the exclusion list: it has no excluded word, it has every other word of
\* NLTK's list, and its words stand in NLTK's order.
C17_ReducedListExact ==
    /\ pc = "start" =>
          /\ \A n \in 1..Len(stop_words) :
                InList(stop_words[n], stop) /\ ~InList(stop_words[n], excluding)
          /\ \A n \in 1..Len(stop) :
                ~InList(stop[n], excluding) => InList(stop[n], stop_words)
          /\ \A n \in 1..(Len(stop_words) - 1) :
                PosIn(stop_words[n], stop) < PosIn(stop_words[n + 1], stop)
    /\ Len(stop_words) = Len(stop) - Len(excluding)
    /\ stop_words[1] = stop[1]

\* No call has been made; "not" is in NLTK's list and in the exclusion list and
\* not in the reduced list, "was" is in the reduced list, and "i" stands before
\* "was" as in NLTK's list.
C17_Witness ==
    /\ pc = "start"
    /\ ncalls = 0
    /\ InList(<<"n", "o", "t">>, stop)
    /\ InList(<<"n", "o", "t">>, excluding)
    /\ ~InList(<<"n", "o", "t">>, stop_words)
    /\ PosIn(<<"i">>, stop_words) < PosIn(<<"w", "a", "s">>, stop_words)

\* C19: in the run of the notebook the endpoint is created only when the
\* training job has completed, a prediction is received only from the endpoint
\* in service, the endpoint is deleted only by the last cell, after all the
\* predict calls, and a run that reaches its end leaves no endpoint.
C19_RunOrder ==
    /\ [][ /\ (endpoint = "none" /\ endpoint' # "none") => job = "Completed"
           /\ (prediction_batches' # prediction_batches /\ prediction_batches' # <<>>) =>
                 (endpoint = "InService" /\ endpoint' = "InService")
           /\ (endpoint # "none" /\ endpoint' = "none") =>
                 (cell = "delete_endpoint" /\ Len(prediction_batches) = Len(batches))
         ]_vars
    /\ [](cell = "end" =>
            /\ endpoint = "none"
            /\ job = "Completed"
            /\ Len(prediction_batches) = Sections)

\* The run with the notebook's test set has reached its end: trained, all
\* batches predicted, the endpoint gone.
C19_Witness ==
    /\ cell = "end"
    /\ X_test = TestSetRows
    /\ job = "Completed"
    /\ Len(prediction_batches) = Sections
    /\ endpoint = "none"

\* C20: the test rows go to the endpoint in batches of size 25: every predict
\* call got 25 rows, and the batches in their order hold every row once.
C20_BatchesOfSize25 ==
    cell \in {"print", "delete_endpoint", "end"} =>
        /\ \A k \in 1..Len(prediction_batches) : len(prediction_batches[k]) = 25
        /\ prediction_batches # <<>>
        /\ prediction_batches[1].first = 1
        /\ prediction_batches[Len(prediction_batches)].last = X_test
        /\ \A k \in 1..(Len(prediction_batches) - 1) :
              prediction_batches[k + 1].first = prediction_batches[k].last + 1

\* The notebook's 7000 test rows have been sent in 25 calls of 280 rows each.
C20_Witness ==
    /\ cell = "print"
    /\ X_test = TestSetRows
    /\ Len(prediction_batches) = 25
    /\ \A k \in 1..Len(prediction_batches) : len(prediction_batches[k]) = 280

====
